---- MODULE Spec2Model ----
(***************************************************************************)
(* Model of src/src/graph/workflow.py: the plan -> generate -> execute ->  *)
(* retry -> format workflow built by create_workflow(llm, df).             *)
(*                                                                         *)
(* The session state (a LangGraph State dict) is the seven variables       *)
(* user_query .. answer.  Every node is one action; a node's return dict   *)
(* is an operator (PlanTaskReturn, ExecuteTaskReturn, ...) and Apply       *)
(* merges it into the session state key by key.  The language model and    *)
(* the generated code are opaque: what they return, raise or assign is     *)
(* drawn from small sets.  Python's None is the value NONE.                *)
(***************************************************************************)
EXTENDS Integers, Sequences, FiniteSets, TLC

VARIABLES
    user_query,  \* State["user_query"]
    task_plan,   \* State["task_plan"]
    code,        \* State["code"]
    error,       \* State["error"]
    iterations,  \* State["iterations"]
    output,      \* State["output"]
    answer,      \* State["answer"]
    df,          \* contents of the dataframe captured by create_workflow
    pc,          \* node the graph runs next, or the way the run ended
    decision,    \* last value returned by retry_code
    fatalAt,     \* node whose exception ended the run
    planLog,     \* history: one entry per plan_task invocation
    synthLog,    \* history: one entry per execute_task invocation
    execLog,     \* history: one entry per execute_with_exec invocation
    formatLog,   \* history: one entry per format_result invocation
    dfSeen,      \* history: dataframe contents read by schema lookups and runs
    dfInit       \* history: dataframe contents at session start

state == <<user_query, task_plan, code, error, iterations, output, answer>>
hist  == <<planLog, synthLog, execLog, formatLog, dfSeen, dfInit>>
vars  == <<user_query, task_plan, code, error, iterations, output, answer,
           df, pc, decision, fatalAt,
           planLog, synthLog, execLog, formatLog, dfSeen, dfInit>>

----------------------------------------------------------------------------
(* Bounds of the model. *)
NumQueries == 1
NumPlans   == 1
NumCodes   == 2
NumErrs    == 1
NumResults == 1
NumAnswers == 1
MaxDf      == 1

(* The attempt limit compared against in retry_code. *)
MaxAttempts == 3

NONE == "None"
EMPTY == ""
MissingOutput == "Missing output_dict"

Texts(prefix, n) == { prefix \o ToString(i) : i \in 1..n }

Queries == Texts("query", NumQueries)
Plans   == Texts("plan", NumPlans)
Codes   == Texts("code", NumCodes)
Answers == Texts("answer", NumAnswers)
\* str(e) of an exception raised by the generated code; str(Exception()) is ""
ErrMsgs == {EMPTY} \cup Texts("err", NumErrs)
\* values the generated code may bind to output_dict; None is one of them
ResultValues == {NONE} \cup Texts("result", NumResults)
\* dataframe contents, as versions of the table
DfValues == 0..MaxDf

(* What running the generated code does, besides touching df:              *)
(*   raise  - raises an Exception whose str() is msg                       *)
(*   nodef  - finishes without binding output_dict                         *)
(*   assign - finishes with output_dict bound to val                       *)
(*   escape - raises a BaseException that is not an Exception (SystemExit) *)
Behaviours ==
    { [kind |-> "raise",  msg |-> m,     val |-> NONE] : m \in ErrMsgs }
    \cup { [kind |-> "nodef",  msg |-> EMPTY, val |-> NONE] }
    \cup { [kind |-> "assign", msg |-> EMPTY, val |-> v] : v \in ResultValues }
    \cup { [kind |-> "escape", msg |-> EMPTY, val |-> NONE] }

----------------------------------------------------------------------------
(* Merge of a node's return dict into the session state: a key of the dict *)
(* replaces the field, every other field keeps its value.                  *)
Apply(upd) ==
    /\ user_query' = IF "user_query" \in DOMAIN upd THEN upd.user_query ELSE user_query
    /\ task_plan'  = IF "task_plan"  \in DOMAIN upd THEN upd.task_plan  ELSE task_plan
    /\ code'       = IF "code"       \in DOMAIN upd THEN upd.code       ELSE code
    /\ error'      = IF "error"      \in DOMAIN upd THEN upd.error      ELSE error
    /\ iterations' = IF "iterations" \in DOMAIN upd THEN upd.iterations ELSE iterations
    /\ output'     = IF "output"     \in DOMAIN upd THEN upd.output     ELSE output
    /\ answer'     = IF "answer"     \in DOMAIN upd THEN upd.answer     ELSE answer

(* Python truth value of state["error"]: None and "" are both false. *)
Truthy(e) == e # NONE /\ e # EMPTY

(* plan_task: return {"task_plan": response.content} *)
PlanTaskReturn(content) == [task_plan |-> content]

(* execute_task: the branch taken by `if error:` *)
SynthMode(e) == IF Truthy(e) THEN "repair" ELSE "fresh"

(* Variant of SynthPrompt: the repair instruction is built with the plan   *)
(* in the place of the code.                                               *)
SynthPrompt_PlanForCode(e, c, plan, query) ==
    IF SynthMode(e) = "repair"
    THEN [mode |-> "repair", error |-> e,    code |-> plan, plan |-> plan, query |-> NONE]
    ELSE [mode |-> "fresh",  error |-> NONE, code |-> NONE, plan |-> plan, query |-> query]

(* execute_task: what the model call is given in each branch *)
SynthPrompt(e, c, plan, query) ==
    IF SynthMode(e) = "repair"
    THEN [mode |-> "repair", error |-> e,    code |-> c,    plan |-> plan, query |-> NONE]
    ELSE [mode |-> "fresh",  error |-> NONE, code |-> NONE, plan |-> plan, query |-> query]

(* Variant of ExecuteTaskReturn: the counter is returned as it was read. *)
ExecuteTaskReturn_NoIncrement(final_code, its) ==
    [code |-> final_code, iterations |-> its]

(* Variant of ExecuteTaskReturn: the returned dict also resets the error. *)
ExecuteTaskReturn_ClearsError(final_code, its) ==
    [code |-> final_code, iterations |-> its + 1, error |-> NONE]

(* execute_task: return {"code": response.final_code, "iterations": iterations + 1} *)
ExecuteTaskReturn(final_code, its) == [code |-> final_code, iterations |-> its + 1]

(* Variant of ExecRaises: no test that output_dict is in exec_locals. *)
ExecRaises_NoMissingCheck(b) == b.kind = "raise"

(* execute_with_exec: an Exception reaches the except clause when the code *)
(* raises one or when output_dict is not in exec_locals.                   *)
ExecRaises(b) == b.kind = "raise" \/ b.kind = "nodef"

(* execute_with_exec: str(e) in the except clause *)
ExecErrorText(b) == IF b.kind = "nodef" THEN MissingOutput ELSE b.msg

(* Variant of ExecuteWithExecReturn: the success dict carries the code     *)
(* text instead of the value bound to output_dict.                         *)
ExecuteWithExecReturn_OutputIsCode(b, c) ==
    IF b.kind = "raise" \/ b.kind = "nodef"
    THEN [code |-> c, error |-> IF b.kind = "nodef" THEN MissingOutput ELSE b.msg]
    ELSE [output |-> c, error |-> NONE]

(* Variant of ExecuteWithExecReturn: the success dict has no "error" key. *)
ExecuteWithExecReturn_KeepsError(b, c) ==
    IF b.kind = "raise" \/ b.kind = "nodef"
    THEN [code |-> c, error |-> IF b.kind = "nodef" THEN MissingOutput ELSE b.msg]
    ELSE [output |-> b.val]

(* Variant of ExecuteWithExecReturn: the except clause also returns the    *)
(* plan key, emptied.                                                      *)
ExecuteWithExecReturn_DropsPlan(b, c) ==
    IF b.kind = "raise" \/ b.kind = "nodef"
    THEN [code |-> c, error |-> IF b.kind = "nodef" THEN MissingOutput ELSE b.msg,
          task_plan |-> EMPTY]
    ELSE [output |-> b.val, error |-> NONE]

(* execute_with_exec: the dict returned by the try body or the except clause *)
ExecuteWithExecReturn(b, c) ==
    IF ExecRaises(b)
    THEN [code |-> c, error |-> ExecErrorText(b)]
    ELSE [output |-> b.val, error |-> NONE]

(* Variant of RetryCodeRoute: no test of the attempt limit. *)
RetryCodeRoute_AlwaysRetry(e, its) ==
    IF e = NONE THEN "END" ELSE "RETRY"

(* Variant of RetryCodeRoute: the error tested by truth value, as          *)
(* execute_task does.                                                      *)
RetryCodeRoute_FalsyError(e, its) ==
    IF e = NONE \/ e = EMPTY THEN "END"
    ELSE IF its < MaxAttempts THEN "RETRY"
    ELSE "STOP"

(* Variant of RetryCodeRoute: the limit compared with <= . *)
RetryCodeRoute_OffByOne(e, its) ==
    IF e = NONE THEN "END"
    ELSE IF its <= MaxAttempts THEN "RETRY"
    ELSE "STOP"

(* retry_code: the routing key *)
RetryCodeRoute(e, its) ==
    IF e = NONE THEN "END"
    ELSE IF its < MaxAttempts THEN "RETRY"
    ELSE "STOP"

(* Variant of RouteTarget: RETRY mapped to "Format Result". *)
RouteTarget_RetryFormats(key) ==
    CASE key = "RETRY" -> "FORMATTING"
      [] key = "STOP"  -> "ABORT"
      [] key = "END"   -> "FORMATTING"

(* Variant of RouteTarget: RETRY mapped to "Code Execution". *)
RouteTarget_RetryReexecutes(key) ==
    CASE key = "RETRY" -> "EXECUTING"
      [] key = "STOP"  -> "ABORT"
      [] key = "END"   -> "FORMATTING"

(* Variant of RouteTarget: STOP mapped to "Format Result". *)
RouteTarget_StopFormats(key) ==
    CASE key = "RETRY" -> "SYNTHESIZING"
      [] key = "STOP"  -> "FORMATTING"
      [] key = "END"   -> "FORMATTING"

(* create_workflow: the conditional edges out of "Code Execution" *)
RouteTarget(key) ==
    CASE key = "RETRY" -> "SYNTHESIZING"
      [] key = "STOP"  -> "ABORT"
      [] key = "END"   -> "FORMATTING"

(* format_result: return {"answer": response.content} *)
FormatResultReturn(content) == [answer |-> content]

(* Variant of Uncaught: the exception is swallowed and the graph goes on   *)
(* to the node's successor.                                                *)
Uncaught_Swallowed(node) ==
    /\ pc' = CASE node = "plan"   -> "SYNTHESIZING"
               [] node = "synth"  -> "EXECUTING"
               [] node = "exec"   -> "DECIDING"
               [] node = "format" -> "DONE"
    /\ fatalAt' = fatalAt
    /\ UNCHANGED state

(* An exception that no node catches ends the run; the node's return dict  *)
(* is never produced, so the session state keeps its values.               *)
Uncaught(node) ==
    /\ pc' = "FATAL"
    /\ fatalAt' = node
    /\ UNCHANGED state

----------------------------------------------------------------------------
Init ==
    /\ user_query \in Queries
    /\ task_plan = EMPTY
    /\ code = EMPTY
    /\ error = NONE
    /\ iterations = 0
    /\ output = NONE
    /\ answer = EMPTY
    /\ df \in DfValues
    /\ dfInit = df
    /\ pc = "PLANNING"
    /\ decision = NONE
    /\ fatalAt = NONE
    /\ planLog = <<>>
    /\ synthLog = <<>>
    /\ execLog = <<>>
    /\ formatLog = <<>>
    /\ dfSeen = {}

(* plan_task, the model call returning *)
PlanTask ==
    /\ pc = "PLANNING"
    /\ \E content \in Plans :
         /\ Apply(PlanTaskReturn(content))
         /\ planLog' = Append(planLog, [returned |-> TRUE, content |-> content])
    /\ dfSeen' = dfSeen \cup {df}
    /\ pc' = "SYNTHESIZING"
    /\ UNCHANGED <<df, decision, fatalAt, synthLog, execLog, formatLog, dfInit>>

(* plan_task, the model call raising *)
PlanTaskFails ==
    /\ pc = "PLANNING"
    /\ Uncaught("plan")
    /\ planLog' = Append(planLog, [returned |-> FALSE, content |-> NONE])
    /\ dfSeen' = dfSeen \cup {df}
    /\ UNCHANGED <<df, decision, synthLog, execLog, formatLog, dfInit>>

(* execute_task, the model call returning *)
ExecuteTask ==
    /\ pc = "SYNTHESIZING"
    /\ \E final_code \in Codes :
         /\ Apply(ExecuteTaskReturn(final_code, iterations))
         /\ synthLog' = Append(synthLog,
                [prompt |-> SynthPrompt(error, code, task_plan, user_query),
                 returned |-> TRUE, code |-> final_code])
    /\ dfSeen' = IF SynthMode(error) = "fresh" THEN dfSeen \cup {df} ELSE dfSeen
    /\ pc' = "EXECUTING"
    /\ UNCHANGED <<df, decision, fatalAt, planLog, execLog, formatLog, dfInit>>

(* execute_task, the model call raising *)
ExecuteTaskFails ==
    /\ pc = "SYNTHESIZING"
    /\ Uncaught("synth")
    /\ synthLog' = Append(synthLog,
           [prompt |-> SynthPrompt(error, code, task_plan, user_query),
            returned |-> FALSE, code |-> NONE])
    /\ dfSeen' = IF SynthMode(error) = "fresh" THEN dfSeen \cup {df} ELSE dfSeen
    /\ UNCHANGED <<df, decision, planLog, execLog, formatLog, dfInit>>

(* execute_with_exec: exec(code, exec_globals, exec_locals) with the live  *)
(* df in exec_globals, so the code may leave df with any contents.         *)
ExecuteWithExec ==
    /\ pc = "EXECUTING"
    /\ \E b \in Behaviours, d \in DfValues :
         /\ df' = d
         /\ execLog' = Append(execLog,
                [code |-> code, kind |-> b.kind, failed |-> ExecRaises(b),
                 text |-> IF ExecRaises(b) THEN ExecErrorText(b) ELSE NONE,
                 val |-> b.val, its |-> iterations])
         /\ IF b.kind = "escape"
            THEN /\ Uncaught("exec")
                 /\ UNCHANGED decision
            ELSE /\ Apply(ExecuteWithExecReturn(b, code))
                 /\ pc' = "DECIDING"
                 /\ UNCHANGED <<decision, fatalAt>>
    /\ dfSeen' = dfSeen \cup {df}
    /\ UNCHANGED <<planLog, synthLog, formatLog, dfInit>>

(* retry_code, run on the conditional edge after "Code Execution".  On the *)
(* STOP branch it assigns None to output in the state object it was given; *)
(* whether that object is the stored state is the graph runtime's matter,  *)
(* so the stored output either keeps its value or becomes None.            *)
RetryCode ==
    /\ pc = "DECIDING"
    /\ decision' = RetryCodeRoute(error, iterations)
    /\ pc' = RouteTarget(decision')
    /\ IF decision' = "STOP"
       THEN output' \in {output, NONE}
       ELSE output' = output
    /\ UNCHANGED <<user_query, task_plan, code, error, iterations, answer>>
    /\ UNCHANGED <<df, fatalAt>>
    /\ UNCHANGED hist

(* format_result, the model call returning *)
FormatResult ==
    /\ pc = "FORMATTING"
    /\ \E content \in Answers :
         /\ Apply(FormatResultReturn(content))
         /\ formatLog' = Append(formatLog,
                [query |-> user_query, result |-> output, returned |-> TRUE])
    /\ pc' = "DONE"
    /\ UNCHANGED <<df, decision, fatalAt, planLog, synthLog, execLog, dfSeen, dfInit>>

(* format_result, the model call raising *)
FormatResultFails ==
    /\ pc = "FORMATTING"
    /\ Uncaught("format")
    /\ formatLog' = Append(formatLog,
           [query |-> user_query, result |-> output, returned |-> FALSE])
    /\ UNCHANGED <<df, decision, planLog, synthLog, execLog, dfSeen, dfInit>>

Next ==
    \/ PlanTask
    \/ PlanTaskFails
    \/ ExecuteTask
    \/ ExecuteTaskFails
    \/ ExecuteWithExec
    \/ RetryCode
    \/ FormatResult
    \/ FormatResultFails

Spec == Init /\ [][Next]_vars

(* The graph runs one node after another until it reaches END or a node    *)
(* raises: whenever a node is due it is eventually run.                    *)
FairSpec == Spec /\ WF_vars(Next)

(* retry_code on its own, applied to every (error, iterations) pair and    *)
(* every value of the other fields, whether or not a run produces them.    *)
MaxIts == 4

InitGov ==
    /\ user_query \in Queries
    /\ task_plan \in Plans
    /\ code \in Codes
    /\ error \in {NONE, MissingOutput} \cup ErrMsgs
    /\ iterations \in 0..MaxIts
    /\ output \in ResultValues
    /\ answer \in {EMPTY} \cup Answers
    /\ df \in DfValues
    /\ dfInit = df
    /\ pc = "DECIDING"
    /\ decision = NONE
    /\ fatalAt = NONE
    /\ planLog = <<>>
    /\ synthLog = <<>>
    /\ execLog = <<>>
    /\ formatLog = <<>>
    /\ dfSeen = {}

NextGov == RetryCode

GovSpec == InitGov /\ [][NextGov]_vars

----------------------------------------------------------------------------
(* Helpers of the properties. *)
Last(log) == log[Len(log)]
Returned(log) == { j \in 1..Len(log) : log[j].returned }
FailedCalls(log) == { j \in 1..Len(log) : ~log[j].returned }
\* attempts 1..k-1 failed and attempt k bound output_dict
SucceededAt(k) ==
    /\ Len(execLog) >= k
    /\ \A j \in 1..(k - 1) : execLog[j].failed
    /\ execLog[k].kind = "assign"

(* C1: in a session started with iterations = 0, execute_task is invoked   *)
(* at most 3 times and the code is executed at most 3 times; once the      *)
(* third execution has failed, retry_code returns STOP and the run is in   *)
(* ABORT, with no 4th synthesis or execution.                              *)
C1_AtMostThreeAttempts ==
    /\ Len(synthLog) <= 3
    /\ Len(execLog) <= 3
    /\ (Len(execLog) = 3 /\ execLog[3].failed /\ pc # "DECIDING")
          => (decision = "STOP" /\ pc = "ABORT")

C1_Witness ==
    /\ pc = "ABORT"
    /\ Len(synthLog) = 3
    /\ Len(execLog) = 3
    /\ \A j \in 1..3 : execLog[j].failed

(* C2: when retry_code aborts (error is not None and iterations >= 3) the  *)
(* run ends in ABORT with output = None, no answer, and format_result was  *)
(* never invoked.                                                          *)
C2_AbortHasNoOutputNoAnswer ==
    /\ decision = "STOP" => pc = "ABORT"
    /\ pc = "ABORT" =>
          /\ decision = "STOP"
          /\ error # NONE
          /\ iterations >= 3
          /\ output = NONE
          /\ answer = EMPTY
          /\ formatLog = <<>>

C2_Witness ==
    /\ pc = "ABORT"
    /\ decision = "STOP"
    /\ output = NONE

(* C3: for k in 1..3, when execution fails on attempts 1..k-1 and succeeds *)
(* on attempt k, no further synthesis or execution happens, iterations = k,*)
(* error = None, output is the result of attempt k, the run goes on to     *)
(* format_result and an answer is there once it is DONE; with k = 1 there  *)
(* is exactly one synthesis and one execution.                             *)
C3_SuccessAtAttemptK ==
    \A k \in 1..3 :
        SucceededAt(k) =>
            /\ Len(execLog) = k
            /\ Len(synthLog) = k
            /\ iterations = k
            /\ error = NONE
            /\ output = execLog[k].val
            /\ pc \in {"DECIDING", "FORMATTING", "DONE", "FATAL"}
            /\ pc = "FATAL" => fatalAt = "format"
            /\ pc = "DONE" => (answer \in Answers /\ Len(formatLog) = 1)

C3_Witness ==
    /\ pc = "DONE"
    /\ SucceededAt(3)
    /\ iterations = 3
    /\ answer # EMPTY

(* C4: after every execute_with_exec invocation exactly one of error and   *)
(* output is non-empty, whatever the code did and whatever value it bound  *)
(* to output_dict.                                                         *)
C4_ExactlyOneOfErrorOutput ==
    pc = "DECIDING" => ((error # NONE) # (output # NONE))

(* C5: whenever format_result runs or answer is set, output holds a        *)
(* non-empty result written by a successful execution.                     *)
C5_AnswerOnlyWithOutput ==
    (pc = "FORMATTING" \/ formatLog # <<>> \/ answer # EMPTY) =>
        /\ output # NONE
        /\ execLog # <<>>
        /\ Last(execLog).kind = "assign"
        /\ output = Last(execLog).val

(* C6: iterations equals the number of execute_task invocations made so    *)
(* far (those that returned; a run that has not crashed has no other),     *)
(* every change of it is +1 made by execute_task, and at DONE or ABORT it  *)
(* is between 1 and 3.                                                     *)
C6_IterationsCountsSyntheses ==
    /\ [](iterations = Cardinality(Returned(synthLog)))
    /\ [](pc # "FATAL" => iterations = Len(synthLog))
    /\ [](pc \in {"DONE", "ABORT"} => iterations \in 1..3)
    /\ [][iterations' # iterations =>
             (iterations' = iterations + 1 /\ pc = "SYNTHESIZING")]_vars

C6_Witness ==
    /\ pc = "ABORT"
    /\ iterations = 3
    /\ Len(synthLog) = 3

(* C7: when the executed code finishes without raising and without         *)
(* binding output_dict, execute_with_exec records the error "Missing       *)
(* output_dict" and sets no output, and retry_code treats it as any other  *)
(* execution error: RETRY below 3 attempts, STOP otherwise.                *)
C7_MissingOutputIsAnError ==
    (execLog # <<>> /\ Last(execLog).kind = "nodef" /\ Len(synthLog) = Len(execLog)) =>
        /\ pc \in {"DECIDING", "SYNTHESIZING", "ABORT"}
        /\ error = MissingOutput
        /\ error # NONE
        /\ output = NONE
        /\ formatLog = <<>>
        /\ pc = "SYNTHESIZING" => (Len(execLog) < 3 /\ decision = "RETRY")
        /\ pc = "ABORT" => (Len(execLog) = 3 /\ decision = "STOP")

C7_Witness ==
    /\ execLog # <<>>
    /\ Last(execLog).kind = "nodef"
    /\ pc = "ABORT"
    /\ error = MissingOutput

(* C8: task_plan is written at most once, by plan_task, and by no other    *)
(* node; every execute_task call, the repair-mode ones included, is given  *)
(* the plan that plan_task returned.                                       *)
C8_PlanWrittenOnce ==
    /\ [](Len(planLog) <= 1)
    /\ [](Returned(planLog) = {} => task_plan = EMPTY)
    /\ [](Returned(planLog) # {} => task_plan = planLog[1].content)
    /\ [](\A j \in 1..Len(synthLog) :
              /\ Returned(planLog) # {}
              /\ synthLog[j].prompt.plan = planLog[1].content)
    /\ [][task_plan' # task_plan => pc = "PLANNING"]_vars

C8_Witness ==
    /\ Len(synthLog) = 3
    /\ synthLog[2].prompt.mode = "repair"
    /\ synthLog[3].prompt.mode = "repair"
    /\ synthLog[3].prompt.plan = task_plan

(* C9: the dataset is read-only across the session: no execution changes   *)
(* it, and every execution and every schema lookup sees the contents the   *)
(* session started with.                                                   *)
C9_DatasetReadOnly ==
    /\ df = dfInit
    /\ dfSeen \subseteq {dfInit}

(* C10: a model call that fails in plan_task, execute_task or              *)
(* format_result ends the run at once: the run is FATAL, nothing runs      *)
(* afterwards, the failing call changes no field of the session state      *)
(* (iterations included) and there is no answer; a RETRY only ever follows *)
(* a failed execution.                                                     *)
C10_OnlyExecutionErrorsRecovered ==
    /\ []((FailedCalls(planLog) \cup FailedCalls(synthLog) \cup FailedCalls(formatLog)) # {}
             => (pc = "FATAL" /\ fatalAt \in {"plan", "synth", "format"}))
    /\ []((pc = "FATAL" /\ fatalAt # "exec") =>
             /\ answer = EMPTY
             /\ iterations = Cardinality(Returned(synthLog))
             /\ fatalAt = "plan" => (synthLog = <<>> /\ execLog = <<>> /\ formatLog = <<>>)
             /\ fatalAt = "synth" => (Len(execLog) = Len(synthLog) - 1 /\ formatLog = <<>>)
             /\ fatalAt = "format" => Len(formatLog) = 1)
    /\ [](pc = "SYNTHESIZING" /\ decision = "RETRY" => Last(execLog).failed)
    /\ [][pc = "FATAL" => UNCHANGED vars]_vars
    /\ [][(pc # "FATAL" /\ pc' = "FATAL" /\ fatalAt' # "exec") => UNCHANGED state]_vars

C10_Witness ==
    /\ pc = "FATAL"
    /\ fatalAt = "synth"
    /\ Len(synthLog) = 2
    /\ synthLog[2].prompt.mode = "repair"
    /\ iterations = 1

(* C11: when every model call and every execution returns, the run reaches *)
(* DONE or ABORT; a run ends otherwise only where a call raised (FATAL),   *)
(* and the retry loop is bounded: never more than 3 syntheses or 3         *)
(* executions.                                                             *)
C11_SessionTerminates ==
    /\ <>(pc \in {"DONE", "ABORT", "FATAL"})
    /\ [](pc = "FATAL" =>
            \/ (FailedCalls(planLog) \cup FailedCalls(synthLog) \cup FailedCalls(formatLog)) # {}
            \/ (execLog # <<>> /\ Last(execLog).kind = "escape"))
    /\ [](Len(synthLog) <= 3 /\ Len(execLog) <= 3)

C11_Witness ==
    /\ pc \in {"DONE", "ABORT"}
    /\ Len(execLog) = 3
    /\ FailedCalls(planLog) \cup FailedCalls(synthLog) \cup FailedCalls(formatLog) = {}
    /\ \A j \in 1..3 : execLog[j].kind # "escape"

(* C12: retry_code is a function of (error, iterations) alone: it returns  *)
(* END exactly when error is None, RETRY exactly when error is not None    *)
(* and iterations < 3, STOP exactly when error is not None and             *)
(* iterations >= 3, and the graph follows that key.                        *)
C12_GovernorDecision ==
    [][pc = "DECIDING" =>
          /\ (decision' = "END")   <=> (error = NONE)
          /\ (decision' = "RETRY") <=> (error # NONE /\ iterations < 3)
          /\ (decision' = "STOP")  <=> (error # NONE /\ iterations >= 3)
          /\ decision' \in {"END", "RETRY", "STOP"}
          /\ (decision' = "END")   <=> (pc' = "FORMATTING")
          /\ (decision' = "RETRY") <=> (pc' = "SYNTHESIZING")
          /\ (decision' = "STOP")  <=> (pc' = "ABORT")
          /\ error' = error /\ iterations' = iterations]_vars

C12_Witness ==
    /\ pc = "ABORT"
    /\ decision = "STOP"
    /\ error = EMPTY
    /\ iterations = 4
    /\ output # NONE

(* C13: the first execute_task invocation runs in fresh mode and every     *)
(* one that follows a RETRY runs in repair mode, whatever error text the   *)
(* failed execution recorded.                                              *)
C13_RetryMeansRepairMode ==
    \A j \in 1..Len(synthLog) :
        synthLog[j].prompt.mode = (IF j = 1 THEN "fresh" ELSE "repair")

(* C14: whenever an execution attempt fails (the code raises, or ends      *)
(* without output_dict), error is the failure's text, code is the code     *)
(* that was run, output is unset, and the run has not crashed in the       *)
(* sandbox.                                                                *)
C14_ExecutionFailureIsCaptured ==
    /\ fatalAt # "exec"
    /\ (execLog # <<>> /\ Last(execLog).kind # "assign"
            /\ Len(synthLog) = Len(execLog)) =>
          /\ pc # "FATAL"
          /\ error = Last(execLog).text
          /\ error # NONE
          /\ code = Last(execLog).code
          /\ output = NONE

(* C15: every repair-mode execute_task call is given the error text        *)
(* recorded by the execution attempt right before it, which failed, and    *)
(* the code that attempt ran.                                              *)
C15_RepairSeesLastFailure ==
    \A j \in 1..Len(synthLog) :
        synthLog[j].prompt.mode = "repair" =>
            /\ j >= 2
            /\ Len(execLog) >= j - 1
            /\ execLog[j - 1].failed
            /\ synthLog[j].prompt.error = execLog[j - 1].text
            /\ synthLog[j].prompt.code = execLog[j - 1].code
            /\ synthLog[j].prompt.code = synthLog[j - 1].code

C15_Witness ==
    /\ Len(synthLog) = 3
    /\ synthLog[3].prompt.mode = "repair"
    /\ synthLog[3].prompt.error = execLog[2].text
    /\ execLog[1].text # execLog[2].text
    /\ execLog[1].code # execLog[2].code

(* C16: format_result is invoked once in a run that reaches DONE and not   *)
(* at all in a run that ends in ABORT; it is only entered on the key END,  *)
(* and once it has been invoked no synthesis or execution follows.         *)
C16_FormatterOnceAfterProceed ==
    /\ [](Len(formatLog) <= 1)
    /\ [](pc = "DONE" => (Len(formatLog) = 1 /\ formatLog[1].returned))
    /\ [](pc = "ABORT" => formatLog = <<>>)
    /\ [](pc = "FORMATTING" => (decision = "END" /\ formatLog = <<>>))
    /\ [](formatLog # <<>> =>
            /\ decision = "END"
            /\ pc \in {"DONE", "FATAL"}
            /\ pc = "FATAL" => (fatalAt = "format" /\ ~formatLog[1].returned))
    /\ [][formatLog' # formatLog => (pc = "FORMATTING" /\ decision = "END")]_vars
    /\ [][formatLog # <<>> => (synthLog' = synthLog /\ execLog' = execLog)]_vars

C16_Witness ==
    /\ pc = "DONE"
    /\ Len(formatLog) = 1
    /\ decision = "END"
    /\ Len(execLog) = 2

(* C17: execute_task replaces code by the model's response on every        *)
(* invocation and leaves error as it is; only execute_with_exec changes    *)
(* error, to None on success and to the failure text on failure, so error  *)
(* is what the last attempt that returned recorded.                        *)
C17_OnlySandboxWritesError ==
    /\ [][error' # error => pc = "EXECUTING"]_vars
    /\ [][(pc = "SYNTHESIZING" /\ pc' = "EXECUTING") =>
             (error' = error /\ code' = Last(synthLog').code)]_vars
    /\ []((execLog # <<>> /\ Last(execLog).kind # "escape") =>
             error = (IF Last(execLog).failed THEN Last(execLog).text ELSE NONE))
    /\ []((synthLog # <<>> /\ Last(synthLog).returned) => code = Last(synthLog).code)

C17_Witness ==
    /\ pc = "EXECUTING"
    /\ Len(synthLog) = 2
    /\ Len(execLog) = 1
    /\ error = execLog[1].text
    /\ error \in ErrMsgs
    /\ code # execLog[1].code

(* C18: output is set by at most one execution of the run, a successful    *)
(* one, and changes nowhere else; at DONE the answer was formatted from    *)
(* that output, which is the value bound by executing the current code,    *)
(* the one the last synthesis returned.                                    *)
C18_ExactlyOnceResult ==
    /\ [](Cardinality({ j \in 1..Len(execLog) : execLog[j].kind = "assign" }) <= 1)
    /\ [](output # NONE =>
            (execLog # <<>> /\ Last(execLog).kind = "assign" /\ output = Last(execLog).val))
    /\ [](pc = "DONE" =>
            /\ Last(execLog).kind = "assign"
            /\ output = Last(execLog).val
            /\ Last(execLog).code = code
            /\ code = Last(synthLog).code
            /\ Len(execLog) = Len(synthLog)
            /\ formatLog[1].result = output
            /\ formatLog[1].query = user_query
            /\ answer \in Answers)
    /\ [][output' # output =>
            (pc = "EXECUTING" /\ output = NONE /\ output' = Last(execLog').val
               /\ Last(execLog').kind = "assign")]_vars

C18_Witness ==
    /\ pc = "DONE"
    /\ Len(execLog) = 3
    /\ output # NONE
    /\ formatLog[1].result = output
    /\ code # execLog[1].code

(* C19: after the one plan_task invocation, execute_task and               *)
(* execute_with_exec alternate, execute_task first: the j-th execution     *)
(* runs the code the j-th synthesis returned, and whenever retry_code      *)
(* decides the number of executions equals iterations.                     *)
C19_SynthesisExecutionAlternate ==
    /\ Len(planLog) <= 1
    /\ synthLog # <<>> => (Len(planLog) = 1 /\ planLog[1].returned)
    /\ Len(execLog) <= Len(synthLog)
    /\ Len(synthLog) <= Len(execLog) + 1
    /\ pc = "EXECUTING" => Len(synthLog) = Len(execLog) + 1
    /\ pc \in {"DECIDING", "SYNTHESIZING"} => Len(synthLog) = Len(execLog)
    /\ \A j \in 1..Len(execLog) :
          /\ synthLog[j].returned
          /\ execLog[j].code = synthLog[j].code
          /\ execLog[j].its = j
    /\ pc = "DECIDING" => Len(execLog) = iterations

C19_Witness ==
    /\ pc = "DECIDING"
    /\ Len(execLog) = 3
    /\ iterations = 3
    /\ execLog[3].code = synthLog[3].code
    /\ execLog[2].code # execLog[3].code

====
